---- MODULE Spec2Model ----
(***************************************************************************)
(* A model of analyze_shadow_file (shadow_analyzer_git.py): one run of the *)
(* analyzer over a shadow-style file, from the privilege check to the      *)
(* summary or the top-level error message.                                 *)
(*                                                                         *)
(* Text is modelled by TLA+ strings: a line of the input is the string the *)
(* file iterator yields (newline included), a finding is the string the    *)
(* code appends, a line of the output file is the text csv.DictWriter      *)
(* writes.  Python integers are unbounded; a parsed integer is kept as a   *)
(* sign and a decimal magnitude and is turned into a number only when it   *)
(* has at most nine digits.                                                *)
(***************************************************************************)
EXTENDS Integers, Sequences, FiniteSets, TLC

VARIABLES
    euid,             \* os.geteuid() of the run
    file,             \* the lines of the file at input_path, in order
    pc,               \* position of the run in analyze_shadow_file
    idx,              \* number of lines the for loop has taken from the file
    clock,            \* the wall clock: what datetime.now() returns
    readings,         \* history: the clock at the moment each line was taken
    security_issues,  \* the list of rows collected so far
    printed,          \* everything print() has written, in order
    disk,             \* the file at output_path: Absent or its lines
    disk0,            \* history: the file at output_path when the run began
    written,          \* number of rows the writer loop has written
    opened,           \* history: the files the run has opened, in order
    raised            \* history: the exception that reached the outer handlers

vars == <<euid, file, pc, idx, clock, readings, security_issues, printed,
          disk, disk0, written, opened, raised>>

-----------------------------------------------------------------------------
(* Bounds of the model. *)

\* Longest input file, in lines.
MaxLines == 3

-----------------------------------------------------------------------------
(* Strings. *)

Chr(s, i) == SubSeq(s, i, i)

\* The whitespace str.strip() removes, as far as the model's alphabet has it.
Whitespace == {" ", "\n", "\t", "\r"}

RECURSIVE LStrip(_)
LStrip(s) ==
    IF s # "" /\ Chr(s, 1) \in Whitespace THEN LStrip(SubSeq(s, 2, Len(s))) ELSE s

RECURSIVE RStrip(_)
RStrip(s) ==
    IF s # "" /\ Chr(s, Len(s)) \in Whitespace
    THEN RStrip(SubSeq(s, 1, Len(s) - 1))
    ELSE s

\* str.strip()
Strip(s) == RStrip(LStrip(s))

RECURSIVE SplitAcc(_, _, _, _)
SplitAcc(s, sep, cur, acc) ==
    IF s = "" THEN Append(acc, cur)
    ELSE IF Chr(s, 1) = sep
         THEN SplitAcc(SubSeq(s, 2, Len(s)), sep, "", Append(acc, cur))
         ELSE SplitAcc(SubSeq(s, 2, Len(s)), sep, cur \o Chr(s, 1), acc)

\* str.split(sep) for a one-character separator: always at least one part.
Split(s, sep) == SplitAcc(s, sep, "", <<>>)

RECURSIVE Join(_, _)
\* sep.join(parts)
Join(parts, sep) ==
    IF parts = <<>> THEN ""
    ELSE IF Len(parts) = 1 THEN parts[1]
    ELSE parts[1] \o sep \o Join(Tail(parts), sep)

RECURSIVE Contains(_, _)
Contains(s, chars) ==
    s # "" /\ (Chr(s, 1) \in chars \/ Contains(SubSeq(s, 2, Len(s)), chars))

RECURSIVE Without(_, _)
Without(s, c) ==
    IF s = "" THEN ""
    ELSE (IF Chr(s, 1) = c THEN "" ELSE Chr(s, 1)) \o Without(SubSeq(s, 2, Len(s)), c)

-----------------------------------------------------------------------------
(* int(): Python's parse of a decimal integer literal in a str. *)

Digits == {"0", "1", "2", "3", "4", "5", "6", "7", "8", "9"}

DigitVal(c) ==
    CASE c = "0" -> 0 [] c = "1" -> 1 [] c = "2" -> 2 [] c = "3" -> 3
      [] c = "4" -> 4 [] c = "5" -> 5 [] c = "6" -> 6 [] c = "7" -> 7
      [] c = "8" -> 8 [] c = "9" -> 9

RECURSIVE AllIn(_, _)
AllIn(s, chars) ==
    s = "" \/ (Chr(s, 1) \in chars /\ AllIn(SubSeq(s, 2, Len(s)), chars))

RECURSIVE HasDoubleUnderscore(_)
HasDoubleUnderscore(s) ==
    Len(s) >= 2 /\ (SubSeq(s, 1, 2) = "__" \/ HasDoubleUnderscore(SubSeq(s, 2, Len(s))))

RECURSIVE DropLeadingZeros(_)
DropLeadingZeros(s) ==
    IF Len(s) > 1 /\ Chr(s, 1) = "0" THEN DropLeadingZeros(SubSeq(s, 2, Len(s))) ELSE s

\* The digits of a literal after its sign: digits, single underscores between them.
IsIntBody(b) ==
    /\ b # ""
    /\ AllIn(b, Digits \cup {"_"})
    /\ Chr(b, 1) \in Digits
    /\ Chr(b, Len(b)) \in Digits
    /\ ~HasDoubleUnderscore(b)

\* int(s): ok is FALSE where int() raises ValueError; otherwise the value is
\* (-1 if neg) * mag, mag a decimal numeral without leading zeros.
ParseInt(s) ==
    LET t    == Strip(s)
        sgn  == IF t # "" /\ Chr(t, 1) \in {"+", "-"} THEN Chr(t, 1) ELSE ""
        body == IF sgn = "" THEN t ELSE SubSeq(t, 2, Len(t))
    IN  IF IsIntBody(body)
        THEN [ok |-> TRUE, neg |-> (sgn = "-"), mag |-> DropLeadingZeros(Without(body, "_"))]
        ELSE [ok |-> FALSE, neg |-> FALSE, mag |-> "0"]

RECURSIVE MagVal(_)
\* The number a magnitude of at most nine digits stands for.
MagVal(m) ==
    IF m = "" THEN 0 ELSE MagVal(SubSeq(m, 1, Len(m) - 1)) * 10 + DigitVal(Chr(m, Len(m)))

IntVal(p) == IF p.neg THEN 0 - MagVal(p.mag) ELSE MagVal(p.mag)

\* The magnitudes the model can turn into a number.
Small(p) == Len(p.mag) <= 9

RECURSIVE LexGt(_, _)
LexGt(a, b) ==
    /\ a # ""
    /\ \/ DigitVal(Chr(a, 1)) > DigitVal(Chr(b, 1))
       \/ /\ Chr(a, 1) = Chr(b, 1)
          /\ LexGt(SubSeq(a, 2, Len(a)), SubSeq(b, 2, Len(b)))

\* a > b for two magnitudes.
MagGt(a, b) == Len(a) > Len(b) \/ (Len(a) = Len(b) /\ LexGt(a, b))

\* int(x) > 0
Positive(p) == ~p.neg /\ p.mag # "0"

-----------------------------------------------------------------------------
(* datetime: a naive local datetime is a day number (days since 1970-01-01)  *)
(* and a second of that day; the process runs in a zone of constant offset.  *)

\* datetime.fromtimestamp(d * 86400) for a parsed integer d.  Beyond the
\* years 1..9999 it raises ValueError; beyond what localtime() can convert,
\* OSError; beyond the platform's time_t (|d * 86400| >= 2^63), OverflowError.
FromTimestamp(d) ==
    LET exc ==
          IF MagGt(d.mag, "106751991167300") THEN "OverflowError"
          ELSE IF MagGt(d.mag, IF d.neg THEN "784352321872" ELSE "784352270736")
               THEN "OSError"
          ELSE IF MagGt(d.mag, IF d.neg THEN "719161" ELSE "2932896")
               THEN "ValueError"
          ELSE "none"
    IN  [exc |-> exc,
         value |-> IF exc = "none" THEN [day |-> IntVal(d), sec |-> 0]
                   ELSE [day |-> 0, sec |-> 0]]

\* (a - b).days: a timedelta is normalised to 0 <= seconds < 86400, so its
\* days are the floor of the difference.
TimedeltaDays(a, b) ==
    IF a.sec - b.sec < 0 THEN a.day - b.day - 1 ELSE a.day - b.day

-----------------------------------------------------------------------------
(* The rules applied to one record. *)

NoPasswordSet == "No password set"
PasswordStored == "Password stored in /etc/shadow"
NoExpirySet == "No password expiry set"
ChangedToday == "Password changed today - verify if authorized"
InvalidDate == "Invalid date format in password age field"

PasswordExpired(n) == "Password expired " \o ToString(n) \o " days ago"

\* Lines 43-46.
PasswordIssues(password_field) ==
    IF password_field \in {"", "*", "!", "!!"} THEN <<NoPasswordSet>>
    ELSE IF password_field = "x" THEN <<PasswordStored>>
    ELSE <<>>

\* days_since_change > int(max_age), for int(max_age) > 0.
DaysExceed(days, ma) == Small(ma) /\ days > IntVal(ma)

\* ExpiryIssues with the recency test off by one (days_since_change < 0).
ExpiryIssuesTodayOffByOne(days, max_age) ==
    LET ma    == ParseInt(max_age)
        today == IF days < 0 THEN <<ChangedToday>> ELSE <<>>
    IN  IF max_age # "" /\ ~ma.ok THEN <<InvalidDate>>
        ELSE IF max_age # "" /\ Positive(ma)
             THEN (IF DaysExceed(days, ma)
                   THEN <<PasswordExpired(days - IntVal(ma))>>
                   ELSE <<>>) \o today
        ELSE <<NoExpirySet>> \o today

\* ExpiryIssues with a password expired from the day it reaches max_age
\* (days_since_change >= int(max_age)).
ExpiryIssuesExpiredAtLimit(days, max_age) ==
    LET ma    == ParseInt(max_age)
        today == IF days < 1 THEN <<ChangedToday>> ELSE <<>>
    IN  IF max_age # "" /\ ~ma.ok THEN <<InvalidDate>>
        ELSE IF max_age # "" /\ Positive(ma)
             THEN (IF Small(ma) /\ days >= IntVal(ma)
                   THEN <<PasswordExpired(days - IntVal(ma))>>
                   ELSE <<>>) \o today
        ELSE <<NoExpirySet>> \o today

\* Lines 57-64: the findings once days_since_change is known.  int(max_age)
\* is evaluated before anything is appended, so a ValueError leaves only the
\* finding of the except clause.
ExpiryIssues(days, max_age) ==
    LET ma    == ParseInt(max_age)
        today == IF days < 1 THEN <<ChangedToday>> ELSE <<>>
    IN  IF max_age # "" /\ ~ma.ok THEN <<InvalidDate>>
        ELSE IF max_age # "" /\ Positive(ma)
             THEN (IF DaysExceed(days, ma)
                   THEN <<PasswordExpired(days - IntVal(ma))>>
                   ELSE <<>>) \o today
        ELSE <<NoExpirySet>> \o today

\* AgeIssues without the test of line 49: an empty last_changed goes to int().
AgeIssuesWithoutGuard(last_changed, max_age, now) ==
    LET lc == ParseInt(last_changed)
        ft == FromTimestamp(lc)
    IN  IF ~lc.ok \/ ft.exc = "ValueError"
        THEN [issues |-> <<InvalidDate>>, exc |-> "none"]
        ELSE IF ft.exc # "none" THEN [issues |-> <<>>, exc |-> ft.exc]
        ELSE [issues |-> ExpiryIssues(TimedeltaDays(now, ft.value), max_age),
              exc |-> "none"]

\* Lines 49-66: what the age check appends, and the exception that leaves it
\* (one that is no ValueError passes the inner except clause).
AgeIssues(last_changed, max_age, now) ==
    IF last_changed = "" THEN [issues |-> <<>>, exc |-> "none"]
    ELSE LET lc == ParseInt(last_changed)
             ft == FromTimestamp(lc)
         IN  IF ~lc.ok \/ ft.exc = "ValueError"
             THEN [issues |-> <<InvalidDate>>, exc |-> "none"]
             ELSE IF ft.exc # "none" THEN [issues |-> <<>>, exc |-> ft.exc]
             ELSE [issues |-> ExpiryIssues(TimedeltaDays(now, ft.value), max_age),
                   exc |-> "none"]

\* Lines 40-66 for the fields of one record: its list of findings when the
\* rules end, or when an exception ends them.
Evaluate(parts, now) ==
    LET age == AgeIssues(parts[3], parts[5], now)
    IN  [issues |-> PasswordIssues(parts[2]) \o age.issues, exc |-> age.exc]

Row(parts, issues) ==
    [username |-> parts[1], issues |-> Join(issues, "; "),
     last_changed |-> parts[3], max_age |-> parts[5], warning_period |-> parts[6]]

SkipMessage(line) == "Skipping malformed line: " \o Strip(line)

\* ProcessLine skipping a malformed line without its diagnostic.
ProcessLineSilentSkip(line, now, rows) ==
    LET parts == Split(Strip(line), ":")
    IN  IF Len(parts) < 9
        THEN [rows |-> rows, out |-> <<>>]
        ELSE LET ev == Evaluate(parts, now)
             IN  IF ev.exc # "none"
                 THEN [rows |-> rows,
                       out |-> <<"Error processing line for user: " \o parts[1],
                                 "Error details: " \o ev.exc>>]
                 ELSE IF ev.issues # <<>>
                      THEN [rows |-> Append(rows, Row(parts, ev.issues)), out |-> <<>>]
                      ELSE [rows |-> rows, out |-> <<>>]

\* Lines 25-81, the body of the loop for one line: the list of rows and the
\* prints it leaves.
ProcessLine(line, now, rows) ==
    LET parts == Split(Strip(line), ":")
    IN  IF Len(parts) < 9
        THEN [rows |-> rows, out |-> <<SkipMessage(line)>>]
        ELSE LET ev == Evaluate(parts, now)
             IN  IF ev.exc # "none"
                 THEN [rows |-> rows,
                       out |-> <<"Error processing line for user: " \o parts[1],
                                 "Error details: " \o ev.exc>>]
                 ELSE IF ev.issues # <<>>
                      THEN [rows |-> Append(rows, Row(parts, ev.issues)), out |-> <<>>]
                      ELSE [rows |-> rows, out |-> <<>>]

-----------------------------------------------------------------------------
(* csv.DictWriter with the default dialect. *)

RECURSIVE DoubleQuotes(_)
DoubleQuotes(s) ==
    IF s = "" THEN ""
    ELSE (IF Chr(s, 1) = "\"" THEN "\"\"" ELSE Chr(s, 1))
         \o DoubleQuotes(SubSeq(s, 2, Len(s)))

CsvField(f) ==
    IF Contains(f, {",", "\"", "\r", "\n"}) THEN "\"" \o DoubleQuotes(f) \o "\"" ELSE f

CsvLine(fields) ==
    Join([i \in 1..Len(fields) |-> CsvField(fields[i])], ",") \o "\r\n"

fieldnames == <<"username", "issues", "last_changed", "max_age", "warning_period">>

HeaderLine == CsvLine(fieldnames)

RowLine(row) ==
    CsvLine(<<row.username, row.issues, row.last_changed, row.max_age,
              row.warning_period>>)

-----------------------------------------------------------------------------
(* The environment of a run. *)

\* The two parameters of analyze_shadow_file, at their defaults.
input_path == "/etc/shadow"
output_path == "shadow_analysis.csv"

\* A byte the locale's codec cannot decode stands in the text as this mark.
UndecodableByte == "@"

\* The day the run happens on (days since 1970-01-01).
Today == 5

\* The run starts at noon of Today or at the midnight that ends it.
Clocks == {[day |-> Today, sec |-> 43200], [day |-> Today + 1, sec |-> 0]}

Later(a, b) == a.day > b.day \/ (a.day = b.day /\ a.sec > b.sec)

\* The lines the longer files are made of, one of every kind the loop tells
\* apart.
Lines ==
    { "root:*:2:0:1:7:::\n",                  \* no password, expired
      "carol:$6$h:2:0:9:7:::\n",              \* nothing to report
      "dave:x:2:0\n",                         \* four fields
      "\n",                                   \* blank
      "eve:!:1000000000000000:0::7:::\n",     \* a day count beyond time_t
      "m@l:x:2:0:9:7:::\n" }                  \* not decodable

\* Lines at the edges of the format.
EdgeLines ==
    { " zed::zz::0:7:::: \n",                 \* ten fields, padded, bad day count
      "a:b:c:d:e:f:g:h\n",                    \* eight fields
      "::::::::\n",                           \* nine empty fields
      " \t\n" }                               \* whitespace alone

Passwords == {"", "*", "!", "!!", "x", "$6$h"}
LastChanged == {"", "2", "5", "6", "zz", "99999999", "1000000000000000"}
MaxAges == {"", "0", "-1", "1", "3", "9", "zz"}

\* One record for every combination of the fields the rules read.
RecordLines ==
    { "u:" \o pw \o ":" \o lc \o ":0:" \o ma \o ":7:::\n" :
        pw \in Passwords, lc \in LastChanged, ma \in MaxAges }

FilesOfLength(n) == [1..n -> Lines]

Files ==
    UNION {FilesOfLength(n) : n \in 0..MaxLines}
        \cup {<<l>> : l \in RecordLines \cup EdgeLines}

Absent == [exists |-> FALSE, lines |-> <<>>]
OldFile == [exists |-> TRUE, lines |-> <<"old\r\n">>]

NoException == [type |-> "none", msg |-> "", at |-> "none"]

OSErrorText(type, path) ==
    CASE type = "PermissionError"   -> "[Errno 13] Permission denied: '" \o path \o "'"
      [] type = "FileNotFoundError" -> "[Errno 2] No such file or directory: '" \o path \o "'"
      [] type = "IsADirectoryError" -> "[Errno 21] Is a directory: '" \o path \o "'"
      [] type = "OSError"           -> "[Errno 28] No space left on device"

\* What open() can raise for a path.
OpenErrors == {"FileNotFoundError", "PermissionError", "IsADirectoryError"}

-----------------------------------------------------------------------------
(* The run. *)

Init ==
    /\ euid \in {0, 1000}
    /\ file \in Files
    /\ pc = "start"
    /\ idx = 0
    /\ clock \in Clocks
    /\ readings = <<>>
    /\ security_issues = <<>>
    /\ printed = <<>>
    /\ disk0 \in {Absent, OldFile}
    /\ disk = disk0
    /\ written = 0
    /\ opened = <<>>
    /\ raised = NoException

\* Lines 94-101: the three outer except clauses, chosen by the exception's
\* class, and what each prints.
TopLevelMessage(e) ==
    IF e.type = "PermissionError"
    THEN <<"Permission error: " \o e.msg,
           "Please run the script with sudo:",
           "sudo python3 shadow_analyzer.py">>
    ELSE IF e.type = "FileNotFoundError"
         THEN <<"Error: Could not find shadow file at " \o input_path>>
         ELSE <<"An unexpected error occurred: " \o e.msg>>

\* An exception leaves the try block of line 14: its handler prints and the
\* function returns.
Fatal(e) ==
    /\ raised' = e
    /\ printed' = printed \o TopLevelMessage(e)
    /\ pc' = "done"

\* Start without the test of line 16.
StartWithoutPrivilegeCheck ==
    /\ pc = "start"
    /\ pc' = "open_input"
    /\ printed' = Append(printed, "Attempting to read shadow file...")
    /\ UNCHANGED <<euid, file, idx, clock, readings, security_issues, disk, disk0,
                   written, opened, raised>>

\* Lines 16-21.
Start ==
    /\ pc = "start"
    /\ IF euid # 0
       THEN Fatal([type |-> "PermissionError",
                   msg |-> "This script must be run as root to access /etc/shadow",
                   at |-> "geteuid"])
       ELSE /\ pc' = "open_input"
            /\ printed' = Append(printed, "Attempting to read shadow file...")
            /\ raised' = raised
    /\ UNCHANGED <<euid, file, idx, clock, readings, security_issues, disk, disk0,
                   written, opened>>

\* Line 23: open(input_path, 'r').
OpenInput ==
    /\ pc = "open_input"
    /\ \/ /\ opened' = Append(opened, input_path)
          /\ pc' = "loop"
          /\ UNCHANGED <<printed, raised>>
       \/ /\ \E t \in OpenErrors :
                Fatal([type |-> t, msg |-> OSErrorText(t, input_path), at |-> "open_input"])
          /\ UNCHANGED opened
    /\ UNCHANGED <<euid, file, idx, clock, readings, security_issues, disk, disk0,
                   written>>

Decodable(line) == ~Contains(line, {UndecodableByte})

\* The text layer decodes the file a buffer at a time, and every file of the
\* model fits in one buffer: the first request for a line decodes all of it.
AllDecodable == \A i \in 1..Len(file) : Decodable(file[i])

\* Lines 24-81: the for statement yields the next line and the body runs on it.
NextLine ==
    /\ pc = "loop"
    /\ idx < Len(file)
    /\ AllDecodable
    /\ LET r == ProcessLine(file[idx + 1], clock, security_issues)
       IN  /\ security_issues' = r.rows
           /\ printed' = printed \o r.out
    /\ idx' = idx + 1
    /\ readings' = Append(readings, clock)
    /\ UNCHANGED <<euid, file, pc, clock, disk, disk0, written, opened, raised>>

\* Line 24: the for statement asks the file for its first line and the decoder
\* raises; the statement is outside the try of line 25.
DecodeError ==
    /\ pc = "loop"
    /\ idx < Len(file)
    /\ ~AllDecodable
    /\ Fatal([type |-> "UnicodeDecodeError",
              msg |-> "'utf-8' codec can't decode byte 0xff",
              at |-> "read"])
    /\ UNCHANGED <<euid, file, idx, clock, readings, security_issues, disk, disk0,
                   written, opened>>

\* Line 24 at the end of the file: the loop ends and the with block closes.
EndOfInput ==
    /\ pc = "loop"
    /\ idx = Len(file)
    /\ pc' = "open_output"
    /\ UNCHANGED <<euid, file, idx, clock, readings, security_issues, printed, disk,
                   disk0, written, opened, raised>>

\* Line 83: open(output_path, 'w') creates the file or empties it.
OpenOutput ==
    /\ pc = "open_output"
    /\ \/ /\ opened' = Append(opened, output_path)
          /\ disk' = [exists |-> TRUE, lines |-> <<>>]
          /\ pc' = "write_header"
          /\ UNCHANGED <<printed, raised>>
       \/ /\ \E t \in OpenErrors :
                Fatal([type |-> t, msg |-> OSErrorText(t, output_path), at |-> "open_output"])
          /\ UNCHANGED <<opened, disk>>
    /\ UNCHANGED <<euid, file, idx, clock, readings, security_issues, disk0, written>>

WriteFails ==
    Fatal([type |-> "OSError", msg |-> OSErrorText("OSError", output_path), at |-> "write"])

\* Line 87: writer.writeheader().  A write that raises leaves in the file what
\* the writes before it put there.
WriteHeader ==
    /\ pc = "write_header"
    /\ \/ /\ disk' = [disk EXCEPT !.lines = Append(@, HeaderLine)]
          /\ pc' = "write_rows"
          /\ UNCHANGED <<printed, raised>>
       \/ /\ WriteFails
          /\ UNCHANGED disk
    /\ UNCHANGED <<euid, file, idx, clock, readings, security_issues, disk0, written,
                   opened>>

\* Lines 88-89: writer.writerow(issue) for the next row of the list.
WriteRow ==
    /\ pc = "write_rows"
    /\ written < Len(security_issues)
    /\ \/ /\ disk' = [disk EXCEPT !.lines = Append(@, RowLine(security_issues[written + 1]))]
          /\ written' = written + 1
          /\ UNCHANGED <<pc, printed, raised>>
       \/ /\ WriteFails
          /\ UNCHANGED <<disk, written>>
    /\ UNCHANGED <<euid, file, idx, clock, readings, security_issues, disk0, opened>>

Summary ==
    <<"\nAnalysis complete. Found " \o ToString(Len(security_issues))
         \o " potential security issues.",
      "Results written to " \o output_path>>

\* Lines 91-92, after the last row.
Finish ==
    /\ pc = "write_rows"
    /\ written = Len(security_issues)
    /\ printed' = printed \o Summary
    /\ pc' = "done"
    /\ UNCHANGED <<euid, file, idx, clock, readings, security_issues, disk, disk0,
                   written, opened, raised>>

\* Time passes while the run is under way.
Tick ==
    /\ pc # "done"
    /\ \E c \in Clocks : Later(c, clock) /\ clock' = c
    /\ UNCHANGED <<euid, file, pc, idx, readings, security_issues, printed, disk,
                   disk0, written, opened, raised>>

Next ==
    \/ Start
    \/ OpenInput
    \/ NextLine
    \/ DecodeError
    \/ EndOfInput
    \/ OpenOutput
    \/ WriteHeader
    \/ WriteRow
    \/ Finish
    \/ Tick

Spec == Init /\ [][Next]_vars

-----------------------------------------------------------------------------
(* Vocabulary of the properties. *)

RECURSIVE CountChar(_, _)
CountChar(s, c) ==
    IF s = "" THEN 0
    ELSE (IF Chr(s, 1) = c THEN 1 ELSE 0) + CountChar(SubSeq(s, 2, Len(s)), c)

\* The number of fields a line splits into on ':'.
FieldCount(line) == CountChar(Strip(line), ":") + 1

Malformed(line) == FieldCount(line) < 9

Field(line, k) == Split(Strip(line), ":")[k]

StartsWith(s, prefix) ==
    Len(s) >= Len(prefix) /\ SubSeq(s, 1, Len(prefix)) = prefix

RECURSIVE Occurs(_, _)
\* sub occurs somewhere in s.
Occurs(sub, s) ==
    Len(s) >= Len(sub) /\ (StartsWith(s, sub) \/ Occurs(sub, SubSeq(s, 2, Len(s))))

\* The step of the loop that takes one line of the file.
TakesLine == pc = "loop" /\ idx' = idx + 1

\* The step that takes a record: a line of at least nine fields.
TakesRecord == TakesLine /\ ~Malformed(file[idx + 1])

\* Across a step that takes a record: the step appends a row for it.
RowAppended ==
    /\ Len(security_issues') = Len(security_issues) + 1
    /\ SubSeq(security_issues', 1, Len(security_issues)) = security_issues
    /\ security_issues'[Len(security_issues')].username = Field(file[idx + 1], 1)

\* The issues of the row the step appended.
NewIssues == security_issues'[Len(security_issues')].issues

PrivilegeMessage ==
    <<"Permission error: This script must be run as root to access /etc/shadow",
      "Please run the script with sudo:",
      "sudo python3 shadow_analyzer.py">>

HasPrinted(prefix) == \E i \in 1..Len(printed) : StartsWith(printed[i], prefix)

NumberPrinted(prefix) ==
    Cardinality({i \in 1..Len(printed) : StartsWith(printed[i], prefix)})

SummaryPrinted ==
    /\ HasPrinted("\nAnalysis complete. Found "
                  \o ToString(Len(security_issues)) \o " potential security issues.")
    /\ HasPrinted("Results written to " \o output_path)

\* The top-level messages a run has printed, whatever their kind.
ErrorMessages ==
    NumberPrinted("Permission error: ") + NumberPrinted("Error: Could not find")
        + NumberPrinted("An unexpected error occurred: ")

Completed == pc = "done" /\ raised = NoException

-----------------------------------------------------------------------------
(* C1 *)

\* C1: in a run whose effective identity is not root, no file is ever opened,
\* no line is read, the file at the output path stays as it was, the summary
\* is never printed, and the single step the run takes ends it with the
\* privilege message.
C1_NonPrivilegedRunTouchesNoFile ==
    euid # 0 =>
        /\ opened = <<>>
        /\ idx = 0
        /\ disk = disk0
        /\ pc \in {"start", "done"}
        /\ ~HasPrinted("\nAnalysis complete.")
        /\ ~HasPrinted("Results written to")
        /\ pc = "done" => printed = PrivilegeMessage

C1_Witness == euid # 0 /\ pc = "done" /\ printed = PrivilegeMessage /\ disk0 = OldFile

-----------------------------------------------------------------------------
(* C2 *)

\* C2: a run that has ended either completed, with the header and every row
\* in the output file and the summary printed, or printed one error message
\* and left the output file exactly as it was before the run.
C2_CompleteOrUntouched ==
    pc = "done" =>
        \/ /\ raised = NoException
           /\ disk = [exists |-> TRUE,
                      lines |-> <<HeaderLine>>
                                \o [i \in 1..Len(security_issues) |->
                                      RowLine(security_issues[i])]]
           /\ SummaryPrinted
           /\ ErrorMessages = 0
        \/ /\ raised # NoException
           /\ ErrorMessages = 1
           /\ ~HasPrinted("\nAnalysis complete.")
           /\ disk = disk0

-----------------------------------------------------------------------------
(* C3 *)

RECURSIVE RowsSkipping(_, _)
\* The rows the loop body leaves on the lines i..idx of the file when the
\* malformed ones are left out.
RowsSkipping(i, rows) ==
    IF i > idx THEN rows
    ELSE RowsSkipping(i + 1,
                      IF Malformed(file[i]) THEN rows
                      ELSE ProcessLine(file[i], readings[i], rows).rows)

C3_RowsAsIfAbsent ==
    /\ security_issues = RowsSkipping(1, <<>>)
    /\ Completed =>
         HasPrinted("\nAnalysis complete. Found "
                    \o ToString(Len(RowsSkipping(1, <<>>))) \o " potential")

C3_SkipStep ==
    (TakesLine /\ Malformed(file[idx + 1])) =>
        /\ printed' = Append(printed, "Skipping malformed line: " \o Strip(file[idx + 1]))
        /\ security_issues' = security_issues
        /\ pc' = "loop"
        /\ raised' = NoException

\* C3: the step that takes a line of fewer than nine fields prints the skip
\* diagnostic for it, adds no row and leaves the loop running; at any moment
\* the rows are those the other lines alone give, and so is the count of the
\* summary.
C3_MalformedLineSkipped == []C3_RowsAsIfAbsent /\ [][C3_SkipStep]_vars

C3_Witness ==
    /\ Completed
    /\ Len(file) = 3
    /\ ~Malformed(file[1]) /\ Malformed(file[2]) /\ ~Malformed(file[3])
    /\ Len(security_issues) = 2
    /\ HasPrinted("Skipping malformed line: dave:x:2:0")

-----------------------------------------------------------------------------
(* C4 *)

\* C4: no run is ended by a failure on one of its lines: a run that ends
\* without the summary was ended by the privilege check, by the opening of
\* the input, or by the opening or writing of the output, and a run that got
\* past the opening of the input has taken every line of the file.
C4_BadLineNeverAborts ==
    pc = "done" =>
        /\ raised.at \in {"none", "geteuid", "open_input", "open_output", "write"}
        /\ raised.at \notin {"geteuid", "open_input"} => idx = Len(file)
        /\ raised = NoException => SummaryPrinted

-----------------------------------------------------------------------------
(* C5 *)

\* C5: the step that takes a record whose password field is "", "*", "!" or
\* "!!" appends a row whose issues begin with "No password set"; for the
\* field "x" it appends a row whose issues begin with "Password stored in
\* /etc/shadow" and do not hold "No password set"; for any other field no
\* row it appends holds either finding.
C5_PasswordFinding ==
    [][TakesRecord =>
         LET password_field == Field(file[idx + 1], 2)
         IN  /\ password_field \in {"", "*", "!", "!!"} =>
                   RowAppended /\ StartsWith(NewIssues, "No password set")
             /\ password_field = "x" =>
                   /\ RowAppended
                   /\ StartsWith(NewIssues, "Password stored in ")
                   /\ ~Occurs("No password set", NewIssues)
             /\ (password_field \notin {"", "*", "!", "!!", "x"} /\ RowAppended) =>
                   /\ ~Occurs("No password set", NewIssues)
                   /\ ~Occurs("Password stored in ", NewIssues)
      ]_vars

-----------------------------------------------------------------------------
(* C6 *)

\* Across a step that takes a record: last_changed parsed, the date was
\* computed and days_since_change < 1.
ChangedWithinTheDay ==
    LET lc == ParseInt(Field(file[idx + 1], 3))
    IN  /\ Field(file[idx + 1], 3) # ""
        /\ lc.ok
        /\ FromTimestamp(lc).exc = "none"
        /\ TimedeltaDays(clock, FromTimestamp(lc).value) < 1

\* C6 as claimed: whenever days_since_change < 1 the row of the record holds
\* "Password changed today - verify if authorized", whatever max_age is.
C6_ChangedTodayWhateverMaxAge ==
    [][(TakesRecord /\ ChangedWithinTheDay) =>
         RowAppended /\ Occurs("Password changed today - verify if authorized", NewIssues)
      ]_vars

\* C6, amended: whenever days_since_change < 1 and max_age is empty or an
\* integer, the row of the record holds "Password changed today - verify if
\* authorized"; when max_age is not empty and not an integer the row holds
\* "Invalid date format in password age field" and not that finding.
C6_ChangedTodayForIntegerMaxAge ==
    [][(TakesRecord /\ ChangedWithinTheDay) =>
         LET max_age == Field(file[idx + 1], 5)
         IN  /\ RowAppended
             /\ IF max_age = "" \/ ParseInt(max_age).ok
                THEN Occurs("Password changed today - verify if authorized", NewIssues)
                ELSE /\ Occurs("Invalid date format in password age field", NewIssues)
                     /\ ~Occurs("Password changed today", NewIssues)
      ]_vars

C6_Witness ==
    /\ Len(file) = 1 /\ idx = 1
    /\ ~Malformed(file[1])
    /\ Field(file[1], 2) = "$6$h"
    /\ Field(file[1], 3) = "6"
    /\ Field(file[1], 5) = "1"
    /\ readings[1] = [day |-> Today, sec |-> 43200]
    /\ Len(security_issues) = 1
    /\ security_issues[1].issues = "Password changed today - verify if authorized"

-----------------------------------------------------------------------------
(* C7 *)

\* C7: the step that takes a record whose last_changed is empty prints
\* nothing and, whatever max_age and warning_period are, appends a row with
\* the finding of the password rule alone, or no row when that rule finds
\* nothing.
C7_NoAgeFindingWithoutLastChanged ==
    [][(TakesRecord /\ Field(file[idx + 1], 3) = "") =>
         LET password_field == Field(file[idx + 1], 2)
         IN  /\ printed' = printed
             /\ IF password_field \in {"", "*", "!", "!!"}
                THEN RowAppended /\ NewIssues = "No password set"
                ELSE IF password_field = "x"
                     THEN RowAppended /\ NewIssues = "Password stored in /etc/shadow"
                     ELSE security_issues' = security_issues
      ]_vars

C7_Witness ==
    /\ Len(file) = 1 /\ idx = 1
    /\ ~Malformed(file[1])
    /\ Field(file[1], 2) = "!!"
    /\ Field(file[1], 3) = ""
    /\ Field(file[1], 5) = "zz"
    /\ Len(security_issues) = 1
    /\ security_issues[1].issues = "No password set"
    /\ security_issues[1].max_age = "zz"

-----------------------------------------------------------------------------
(* C8 *)

\* The three cases of the expiry rule for a record taken by the step, given
\* the days since the change.
ExpiryFindingAsClaimed(days) ==
    LET max_age == Field(file[idx + 1], 5)
        ma      == ParseInt(max_age)
    IN  /\ (max_age # "" /\ ma.ok /\ Positive(ma) /\ Small(ma) /\ days > IntVal(ma)) =>
              /\ RowAppended
              /\ days - IntVal(ma) >= 1
              /\ Occurs("Password expired " \o ToString(days - IntVal(ma)) \o " days ago",
                        NewIssues)
              /\ ~Occurs("No password expiry set", NewIssues)
        /\ (max_age # "" /\ ma.ok /\ Positive(ma) /\ (~Small(ma) \/ days <= IntVal(ma))
              /\ RowAppended) =>
              /\ ~Occurs("Password expired", NewIssues)
              /\ ~Occurs("No password expiry set", NewIssues)
        /\ (max_age = "" \/ (ma.ok /\ ~Positive(ma))) =>
              /\ RowAppended
              /\ Occurs("No password expiry set", NewIssues)
              /\ ~Occurs("Password expired", NewIssues)

\* C8 as claimed: for every record whose last_changed parses as an integer
\* the expiry finding follows the three cases; where no date can be computed
\* from it, the case of an empty or non-positive max_age still asks for "No
\* password expiry set".
C8_ExpiryForEveryIntegerLastChanged ==
    [][(TakesRecord /\ Field(file[idx + 1], 3) # ""
           /\ ParseInt(Field(file[idx + 1], 3)).ok) =>
         LET ft == FromTimestamp(ParseInt(Field(file[idx + 1], 3)))
         IN  ExpiryFindingAsClaimed(IF ft.exc = "none"
                                    THEN TimedeltaDays(clock, ft.value)
                                    ELSE 0)
      ]_vars

\* C8, amended: for every record whose last_changed parses as an integer
\* that is a day of the years 1..9999, so that days_since_change is
\* computed, the expiry finding follows the three cases.
C8_ExpiryForEveryComputedDate ==
    [][(TakesRecord /\ Field(file[idx + 1], 3) # ""
           /\ ParseInt(Field(file[idx + 1], 3)).ok
           /\ FromTimestamp(ParseInt(Field(file[idx + 1], 3))).exc = "none") =>
         ExpiryFindingAsClaimed(
             TimedeltaDays(clock, FromTimestamp(ParseInt(Field(file[idx + 1], 3))).value))
      ]_vars

C8_Witness ==
    /\ Len(file) = 1 /\ idx = 1
    /\ ~Malformed(file[1])
    /\ Field(file[1], 2) = "$6$h"
    /\ Field(file[1], 3) = "2"
    /\ Field(file[1], 5) = "1"
    /\ readings[1] = [day |-> Today + 1, sec |-> 0]
    /\ Len(security_issues) = 1
    /\ security_issues[1].issues = "Password expired " \o ToString(Today - 2) \o " days ago"

-----------------------------------------------------------------------------
(* C9 *)

RECURSIVE RowsOfRecordsWithFindings(_)
\* One row for each of the first n lines that is a record with at least one
\* finding, in the order of the lines.
RowsOfRecordsWithFindings(n) ==
    IF n = 0 THEN <<>>
    ELSE LET parts == Split(Strip(file[n]), ":")
             rest  == RowsOfRecordsWithFindings(n - 1)
         IN  IF ~Malformed(file[n]) /\ Evaluate(parts, readings[n]).issues # <<>>
             THEN Append(rest, Row(parts, Evaluate(parts, readings[n]).issues))
             ELSE rest

\* C9: after a completed run the rows written are, in order, one for each
\* record of the input that had at least one finding, with the findings
\* joined by "; ", and the summary's count is the number of rows written.
C9_RowsMatchRecordsWithFindings ==
    Completed =>
        /\ idx = Len(file)
        /\ security_issues = RowsOfRecordsWithFindings(Len(file))
        /\ disk.lines = <<HeaderLine>>
                        \o [i \in 1..Len(security_issues) |-> RowLine(security_issues[i])]
        /\ HasPrinted("\nAnalysis complete. Found " \o ToString(Len(disk.lines) - 1)
                      \o " potential security issues.")

-----------------------------------------------------------------------------
(* C10 *)

\* C10: a run ended by an exception has printed exactly one top-level
\* message; the privilege message only for a non-root identity or a denied
\* read of the input, the missing-file message only for an input path that
\* does not exist, and the generic message for every failure to open or
\* write the output.
C10_MessageMatchesCause ==
    (pc = "done" /\ raised # NoException) =>
        /\ ErrorMessages = 1
        /\ HasPrinted("Permission error: ") =>
              \/ raised.at = "geteuid"
              \/ raised.at = "open_input" /\ raised.type = "PermissionError"
        /\ HasPrinted("Error: Could not find shadow file at ") =>
              raised.at = "open_input" /\ raised.type = "FileNotFoundError"
        /\ raised.at \in {"open_output", "write"} =>
              HasPrinted("An unexpected error occurred: ")

====
